---- MODULE Spec2Model ----
(***************************************************************************)
(* Model of src/src/data/make_dataset.py: the enrichment of a list of      *)
(* postal codes (CEPs) with data fetched from the Geofusion API.           *)
(*                                                                         *)
(* Python values are encoded as records [t, n, s, d]: t is the type tag,   *)
(* n the number, s the string, d the items of a dict in insertion order    *)
(* (each item a record [k, v] of two Python values).  A call's outcome is a *)
(* record [exc, val]: exc = "" when the call returned val, the exception's *)
(* name otherwise.                                                         *)
(***************************************************************************)
EXTENDS Integers, Sequences, FiniteSets, TLC

VARIABLES
    plan,            \* get_response: what each successive requests.get does
    retries_arg,     \* get_response: the max_retries argument of the call
    response_out,    \* get_response: outcome of the call
    default_values,  \* convert_nested_dict: the list object of `values=[]`
    calls,           \* number of flattening invocations so far
    last_call,       \* the last flattening invocation: site, input, outcome
    world,           \* enrich_cep: the API's behaviour for the record
    cep_index,       \* enrich_cep: the record's index
    pt_data,         \* enrich_cep: outcome of get_point
    record_out,      \* enrich_cep: outcome of the call
    ceps,            \* main: the input postal codes, in file order
    n_jobs,          \* main: number of concurrent workers
    running,         \* main: indices being enriched by a worker
    data,            \* main: the list returned by Parallel(...)
    finished,        \* main: indices in order of completion
    result,          \* main: reduce(dict_merge, data)
    status           \* main: "running", "done" or "interrupted"

response_vars == <<plan, retries_arg, response_out>>
flatten_vars == <<default_values, calls, last_call>>
record_vars == <<world, cep_index, pt_data, record_out>>
main_vars == <<ceps, n_jobs, running, data, finished, result, status>>
vars == <<response_vars, flatten_vars, record_vars, main_vars>>

(***************************************************************************)
(* Bounds of the model.                                                    *)
(***************************************************************************)
MaxLeaf == 2
MaxCalls == 2
MaxIndex == 1
MaxRecords == 2
MaxJobs == 2
MaxPlan == 7
TransientFailures == 2

(***************************************************************************)
(* Python values.                                                          *)
(***************************************************************************)
Num(n) == [t |-> "num", n |-> n, s |-> "", d |-> <<>>]
Str(s) == [t |-> "str", n |-> 0, s |-> s, d |-> <<>>]
Bool(b) == [t |-> "bool", n |-> IF b THEN 1 ELSE 0, s |-> "", d |-> <<>>]
Dict(items) == [t |-> "dict", n |-> 0, s |-> "", d |-> items]
None == [t |-> "none", n |-> 0, s |-> "", d |-> <<>>]
Item(key, value) == [k |-> key, v |-> value]
EmptyDict == Dict(<<>>)

Ret(v) == [exc |-> "", val |-> v]
Raise(e) == [exc |-> e, val |-> None]

\* bool(x) of a Python value.
Truthy(x) ==
    CASE x.t \in {"num", "bool"} -> x.n # 0
      [] x.t = "str" -> x.s # ""
      [] x.t = "dict" -> x.d # <<>>
      [] OTHER -> FALSE

\* `key in dict`, dict[key], dict.keys()
Keys(dict) == {dict.d[i].k : i \in 1..Len(dict.d)}
HasKey(dict, key) == key \in Keys(dict)
Get(dict, key) == dict.d[CHOOSE i \in 1..Len(dict.d) : dict.d[i].k = key].v

\* dict[key] = value: an existing key keeps its place, a new one goes last.
SetItem(dict, key, value) ==
    IF HasKey(dict, key)
    THEN Dict([i \in 1..Len(dict.d) |->
                 IF dict.d[i].k = key THEN Item(key, value) ELSE dict.d[i]])
    ELSE Dict(Append(dict.d, Item(key, value)))

\* dict.pop(key, None)
Pop(dict, key) == Dict(SelectSeq(dict.d, LAMBDA it : it.k # key))

RECURSIVE UpdateFrom(_, _, _)
UpdateFrom(dict, items, i) ==
    IF i > Len(items) THEN dict
    ELSE UpdateFrom(SetItem(dict, items[i].k, items[i].v), items, i + 1)

\* dict_a.update(dict_b), also {**dict_a, **dict_b}
Update(dict_a, dict_b) == UpdateFrom(dict_a, dict_b.d, 1)

\* Python's == on dicts ignores the insertion order.
AsMap(dict) == [key \in Keys(dict) |-> Get(dict, key)]

\* {prefix + k: v for k, v in dict.items()}
PrefixKeys(prefix, dict) ==
    UpdateFrom(EmptyDict,
               [i \in 1..Len(dict.d) |-> Item(Str(prefix \o dict.d[i].k.s), dict.d[i].v)], 1)

RECURSIVE SumFrom(_, _)
SumFrom(items, i) ==
    IF i > Len(items) THEN 0 ELSE items[i].v.n + SumFrom(items, i + 1)

\* sum(list(dict.values())) of a dict of numbers
SumValues(dict) == SumFrom(dict.d, 1)

(***************************************************************************)
(* The nested-object flattener.                                            *)
(***************************************************************************)
is_numeric(x) == x.t \in {"num", "bool"}

dict_merge(dict_a, dict_b) == Update(Update(EmptyDict, dict_a), dict_b)

RECURSIVE ReduceFrom(_, _, _)
ReduceFrom(acc, list, i) ==
    IF i > Len(list) THEN acc ELSE ReduceFrom(dict_merge(acc, list[i]), list, i + 1)

\* functools.reduce(dict_merge, list): TypeError on an empty list, the
\* first element itself on a list of one.
reduce_dict_merge(list) ==
    IF list = <<>> THEN Raise("TypeError") ELSE Ret(ReduceFrom(list[1], list, 2))

\* The outcome carries the accumulator, which the call mutates in place.
Flat(e, v, acc) == [exc |-> e, val |-> v, values |-> acc]

RECURSIVE convert_nested_dict(_, _, _)
RECURSIVE convert_items(_, _, _, _)
convert_nested_dict(x, prefix, values) ==
    IF is_numeric(x) THEN Flat("", x, values)
    ELSE IF ~Truthy(x) THEN Flat("", x, values)
    ELSE IF x.t # "dict" THEN Flat("AttributeError", None, values)
    ELSE LET r == convert_items(x.d, 1, prefix, values)
         IN  IF r.exc # "" THEN r
             ELSE IF r.values # <<>>
             THEN Flat("", reduce_dict_merge(r.values).val, r.values)
             ELSE Flat("", None, r.values)

\* The loop `for key, value in data.items()`.
convert_items(items, i, prefix, values) ==
    IF i > Len(items) THEN Flat("", None, values)
    ELSE LET new_key == IF prefix # "" THEN prefix \o "__" \o items[i].k.s
                        ELSE items[i].k.s
             r == convert_nested_dict(items[i].v, new_key, values)
             acc == IF is_numeric(r.val)
                    THEN Append(r.values, Dict(<<Item(Str(new_key), r.val)>>))
                    ELSE r.values
         IN  IF r.exc # "" THEN r ELSE convert_items(items, i + 1, prefix, acc)

(***************************************************************************)
(* The HTTP call wrapper.                                                  *)
(***************************************************************************)
DefaultMaxRetries == 5
StatedAttempts == 5

\* A requests.Response: bool(response) is response.ok; text names the body
\* and json is the document the body encodes (Invalid when it is not JSON).
Invalid == [t |-> "invalid", n |-> 0, s |-> "", d |-> <<>>]
Response(ok, text, json) == [ok |-> ok, text |-> text, json |-> json]
NoResponse == Response(FALSE, "", Invalid)

\* json.loads(response.text)
json_loads(response) ==
    IF response.json = Invalid THEN Raise("JSONDecodeError") ELSE Ret(response.json)

\* x[key] on a Python value read from JSON.
Subscript(x, key) ==
    IF x.t # "dict" THEN Raise("TypeError")
    ELSE IF HasKey(x, key) THEN Ret(Get(x, key))
    ELSE Raise("KeyError")

\* What one requests.get does: it returns a response or raises.
Ok(resp) == [kind |-> "ok", resp |-> resp]
Fail(kind) == [kind |-> kind, resp |-> NoResponse]
AttemptKinds == {"ok", "ConnectionError", "Exception", "KeyboardInterrupt"}

\* Past the end of a plan the network stays down.
AttemptAt(attempts, k) ==
    IF k <= Len(attempts) THEN attempts[k] ELSE Fail("ConnectionError")

Returned(resp) == [exc |-> "", val |-> resp, gets |-> 1, stated |-> 0]
Raised(e) == [exc |-> e, val |-> NoResponse, gets |-> 1, stated |-> 0]

\* get_response giving up silently when the retries run out: no terminal error.
RECURSIVE get_response_silent(_, _, _)
get_response_silent(attempts, k, max_retries) ==
    LET a == AttemptAt(attempts, k)
    IN  IF a.kind = "ok" THEN Returned(a.resp)
        ELSE IF a.kind = "ConnectionError"
        THEN IF max_retries # 0
             THEN LET r == get_response_silent(attempts, k + 1, max_retries - 1)
                  IN  [r EXCEPT !.gets = @ + 1]
             ELSE Returned(NoResponse)
        ELSE Raised(a.kind)

\* get_response with attempts[k] the outcome of its requests.get.  gets
\* counts the GETs issued by the call and the calls it makes to itself;
\* stated is the number of attempts the terminal error's message names.
RECURSIVE get_response(_, _, _)
get_response(attempts, k, max_retries) ==
    LET a == AttemptAt(attempts, k)
    IN  IF a.kind = "ok" THEN Returned(a.resp)
        ELSE IF a.kind = "ConnectionError"
        THEN IF max_retries # 0
             THEN LET r == get_response(attempts, k + 1, max_retries - 1)
                  IN  [r EXCEPT !.gets = @ + 1]
             ELSE [Raised("ValueError") EXCEPT !.stated = StatedAttempts]
        ELSE Raised(a.kind)

(***************************************************************************)
(* Specification of one call of get_response against an arbitrary network. *)
(***************************************************************************)
NotCalled == [exc |-> "not called", val |-> NoResponse, gets |-> 0, stated |-> 0]

\* The k-th GET, when it succeeds, answers with a response of its own.
ProbeResponse(k) == Response(TRUE, "response " \o ToString(k), None)
ProbePlans ==
    {[k \in 1..MaxPlan |-> IF kinds[k] = "ok" THEN Ok(ProbeResponse(k))
                           ELSE Fail(kinds[k])] : kinds \in [1..MaxPlan -> AttemptKinds]}

IdleResponse == plan = <<>> /\ retries_arg = 0 /\ response_out = NotCalled
NoCall == [site |-> "none", input |-> None, out |-> Flat("not called", None, <<>>)]
IdleFlatten == default_values = <<>> /\ calls = 0 /\ last_call = NoCall
NotEnriched == Flat("not called", None, <<>>)
IdleRecord ==
    world = <<>> /\ cep_index = 0 /\ pt_data = Raise("not called")
      /\ record_out = NotEnriched
IdleMain ==
    /\ ceps = <<>> /\ n_jobs = 0 /\ running = {} /\ data = <<>>
    /\ finished = <<>> /\ result = None /\ status = "idle"

InitResponse ==
    /\ plan \in ProbePlans
    /\ retries_arg = DefaultMaxRetries
    /\ response_out = NotCalled
    /\ IdleFlatten /\ IdleRecord /\ IdleMain

CallGetResponse(max_retries) ==
    /\ response_out = NotCalled
    /\ retries_arg' = max_retries
    /\ response_out' = get_response(plan, 1, max_retries)
    /\ UNCHANGED <<plan, flatten_vars, record_vars, main_vars>>

NextResponse == \E max_retries \in 0..DefaultMaxRetries : CallGetResponse(max_retries)

SpecResponse == InitResponse /\ [][NextResponse]_vars

\* The attempts a call with retries_arg may use, and the first of them
\* that is not a connection error (0 when all are).
AttemptBound == retries_arg + 1
ConnectionErrorsUpTo(n) == \A k \in 1..n : AttemptAt(plan, k).kind = "ConnectionError"
FirstOther ==
    IF ConnectionErrorsUpTo(AttemptBound) THEN 0
    ELSE CHOOSE n \in 1..AttemptBound :
           /\ AttemptAt(plan, n).kind # "ConnectionError"
           /\ ConnectionErrorsUpTo(n - 1)
Called == response_out # NotCalled

\* C4: a call whose attempts fail with connection errors until one within
\* the bound succeeds returns that attempt's response; a call whose every
\* attempt up to the bound fails with a connection error raises ValueError
\* and returns nothing; with no other kind of failure these are the only
\* two outcomes.
C4_RetryOutcome ==
    Called =>
      /\ (FirstOther # 0 /\ AttemptAt(plan, FirstOther).kind = "ok")
            => /\ response_out.exc = ""
               /\ response_out.val = plan[FirstOther].resp
               /\ response_out.gets = FirstOther
      /\ FirstOther = 0
            => /\ response_out.exc = "ValueError"
               /\ response_out.val = NoResponse
      /\ (\A k \in 1..AttemptBound : AttemptAt(plan, k).kind \in {"ok", "ConnectionError"})
            => \/ response_out.exc = "" /\ response_out.val.ok
               \/ response_out.exc = "ValueError"

\* A call that succeeded on its last allowed attempt, after retries.
C4_Witness ==
    /\ Called
    /\ retries_arg = DefaultMaxRetries
    /\ response_out.exc = ""
    /\ response_out.gets = DefaultMaxRetries + 1

\* C9: with every attempt failing with a connection error, a top-level
\* call with max_retries=5 issues exactly the 5 GETs its error message
\* names before raising it.
C9_ExactlyFiveAttempts ==
    (Called /\ retries_arg = DefaultMaxRetries /\ FirstOther = 0)
      => /\ response_out.exc = "ValueError"
         /\ response_out.stated = 5
         /\ response_out.gets = 5

(***************************************************************************)
(* The field enrichers.  `attempts` is what the successive requests.get of *)
(* the enricher's endpoint do; `shared` is the content of the list object  *)
(* that is the default of convert_nested_dict's `values`, and an outcome's *)
(* `values` is its content after the call.                                 *)
(***************************************************************************)
\* Let(e, LAMBDA x : body) is body with x bound to the value of e: the
\* statements of a Python block, one binding after the other.
Let(value, Body(_)) == Body(value)

\* A call site that leaves `values` to its default, the shared list.
AccumulatorDefault(shared) == [list |-> shared, shared |-> TRUE]

\* The `values=[]` of the three call sites: a list of the call's own.
Accumulator(shared) == [list |-> <<>>, shared |-> FALSE]

\* The shared list after a call that was handed acc.
SharedAfter(acc, shared, flat) == IF acc.shared THEN flat.values ELSE shared

\* convert_nested_dict(x, values=[]) at a call site.
FlattenAt(x, shared) ==
    Let(Accumulator(shared), LAMBDA acc :
    Let(convert_nested_dict(x, "", acc.list), LAMBDA flat :
        Flat(flat.exc, flat.val, SharedAfter(acc, shared, flat))))

\* An exception that `except Exception` catches.
Caught(r) == r.exc \notin {"", "KeyboardInterrupt"}

get_pois_try(attempts, shared) ==
    Let(get_response(attempts, 1, DefaultMaxRetries), LAMBDA response :
    IF response.exc # "" THEN Flat(response.exc, None, shared) ELSE
    Let(json_loads(response.val), LAMBDA parsed :
    IF parsed.exc # "" THEN Flat(parsed.exc, None, shared) ELSE
    Let(Subscript(parsed.val, Str("summary")), LAMBDA summary :
    IF summary.exc # "" THEN Flat(summary.exc, None, shared) ELSE
    Let(FlattenAt(summary.val, shared), LAMBDA flat :
    IF flat.exc # "" THEN flat
    ELSE IF flat.val.t # "dict" THEN Flat("AttributeError", None, flat.values) ELSE
    Let(Subscript(parsed.val, Str("total")), LAMBDA total :
    IF total.exc # "" THEN Flat(total.exc, None, flat.values)
    ELSE Flat("", SetItem(PrefixKeys("pois__", flat.val), Str("pois__total"),
                          total.val), flat.values))))))

get_pois(attempts, shared) ==
    Let(get_pois_try(attempts, shared), LAMBDA r :
        IF Caught(r) THEN Flat("", EmptyDict, r.values) ELSE r)

reduce_potential(potential, data_potential, shared) ==
    Let(FlattenAt(Dict(<<Item(potential, data_potential)>>), shared), LAMBDA flat :
    IF flat.exc # "" THEN flat
    ELSE IF flat.val.t # "dict" THEN Flat("AttributeError", None, flat.values)
    ELSE Flat("", SetItem(flat.val, Str(potential.s \o "__total"),
                          Num(SumValues(flat.val))), flat.values))

\* reduce(dict_merge, potentials) from the i-th item on, merged so far given.
RECURSIVE merge_potentials(_, _, _, _)
merge_potentials(merged, items, i, shared) ==
    IF i > Len(items) THEN Flat("", merged, shared) ELSE
    Let(reduce_potential(items[i].k, items[i].v, shared), LAMBDA r :
    IF r.exc # "" THEN r
    ELSE merge_potentials(dict_merge(merged, r.val), items, i + 1, r.values))

reduce_potentials(data_potentials, shared) ==
    IF data_potentials.t # "dict" THEN Flat("AttributeError", None, shared)
    ELSE IF data_potentials.d = <<>> THEN Flat("TypeError", None, shared) ELSE
    Let(reduce_potential(data_potentials.d[1].k, data_potentials.d[1].v, shared),
        LAMBDA first :
    IF first.exc # "" THEN first
    ELSE merge_potentials(first.val, data_potentials.d, 2, first.values))

get_consumption_potential(attempts, shared) ==
    Let(get_response(attempts, 1, DefaultMaxRetries), LAMBDA response :
    IF response.exc # "" THEN Flat(response.exc, None, shared) ELSE
    Let(json_loads(response.val), LAMBDA parsed :
    IF parsed.exc # "" THEN Flat(parsed.exc, None, shared) ELSE
    Let(reduce_potentials(parsed.val, shared), LAMBDA potentials :
    IF potentials.exc # "" THEN potentials
    ELSE Flat("", PrefixKeys("consumption_potential__", potentials.val),
              potentials.values))))

SocioUrl == "xray/v1/areas/surroundings/sociodemography/RADIUS"

\* The try block of get_sociodemography, from the outcome of its
\* get_response on.
get_sociodemography_try(response, shared) ==
    IF response.exc # "" THEN Flat(response.exc, None, shared) ELSE
    Let(json_loads(response.val), LAMBDA parsed :
    IF parsed.exc # "" THEN Flat(parsed.exc, None, shared) ELSE
    Let(FlattenAt(parsed.val, shared), LAMBDA flat :
    IF flat.exc # "" THEN flat
    ELSE IF flat.val.t # "dict" THEN Flat("AttributeError", None, flat.values)
    ELSE Flat("", PrefixKeys("sociodemography__", flat.val), flat.values)))

\* The handler reads `response`, which is unbound when get_response raised.
get_sociodemography(attempts, shared) ==
    Let(get_response(attempts, 1, DefaultMaxRetries), LAMBDA response :
    Let(get_sociodemography_try(response, shared), LAMBDA r :
    IF ~Caught(r) THEN r
    ELSE IF response.exc # "" THEN Flat("UnboundLocalError", None, r.values)
    ELSE Flat("", Dict(<<Item(Str("Error sociodemografia"),
                  Str("Erro ao buscar sociodemografia para a url [" \o SocioUrl \o "]"
                      \o (IF response.val.ok
                          THEN "\nResposta obtida: [" \o response.val.text \o "]"
                          ELSE "")
                      \o "\n\n" \o r.exc))>>), r.values)))

get_income(attempts) ==
    Let(get_response(attempts, 1, DefaultMaxRetries), LAMBDA response :
    Let(IF response.exc # "" THEN Raise(response.exc) ELSE json_loads(response.val),
        LAMBDA parsed :
    IF parsed.exc = "KeyboardInterrupt" THEN Raise(parsed.exc)
    ELSE IF parsed.exc # "" THEN Ret(Dict(<<Item(Str("Income"), Str("Error"))>>))
    ELSE Ret(Dict(<<Item(Str("renda_domiciliar_provavel"), parsed.val)>>))))

get_intraurban_cluster_try(attempts) ==
    Let(get_response(attempts, 1, DefaultMaxRetries), LAMBDA response :
    IF response.exc # "" THEN Raise(response.exc) ELSE
    Let(json_loads(response.val), LAMBDA parsed :
    IF parsed.exc # "" THEN parsed ELSE
    Let(Subscript(parsed.val, Str("max")), LAMBDA cluster :
    IF cluster.exc # "" THEN cluster
    ELSE IF Truthy(cluster.val) THEN cluster ELSE Ret(Str("rural")))))

get_intraurban_cluster(attempts) ==
    Let(get_intraurban_cluster_try(attempts), LAMBDA r :
        IF Caught(r) THEN Ret(Str("Error")) ELSE r)

get_intraurban_segmentation_try(attempts, cluster_attempts) ==
    Let(get_response(attempts, 1, DefaultMaxRetries), LAMBDA response :
    IF response.exc # "" THEN Raise(response.exc) ELSE
    Let(json_loads(response.val), LAMBDA parsed :
    IF parsed.exc # "" THEN parsed ELSE
    Let(Subscript(parsed.val, Str("probs")), LAMBDA probs :
    IF probs.exc # "" THEN probs ELSE
    Let(get_intraurban_cluster(cluster_attempts), LAMBDA cluster :
    IF cluster.exc # "" THEN cluster
    ELSE IF probs.val.t # "dict" THEN Raise("TypeError")
    ELSE Ret(SetItem(probs.val, Str("seg_intra_cluster"), cluster.val))))))

get_intraurban_segmentation(attempts, cluster_attempts) ==
    Let(get_intraurban_segmentation_try(attempts, cluster_attempts), LAMBDA r :
        IF Caught(r) THEN Ret(Dict(<<Item(Str("Seg. Intra"), Str("Error"))>>)) ELSE r)

(***************************************************************************)
(* Nested mappings of depth two over two keys, one of which is the other   *)
(* joined to itself: the inputs of the flattener.                          *)
(***************************************************************************)
KeySamples == {Str("a"), Str("a__a")}
Leaves == {Num(n) : n \in 1..MaxLeaf}

\* The orders in which some of the keys can be inserted in a dict.
KeyOrders ==
    {ks \in UNION {[1..n -> KeySamples] : n \in 0..Cardinality(KeySamples)} :
        \A i, j \in DOMAIN ks : i # j => ks[i] # ks[j]}
DictsOver(values) ==
    UNION {{Dict([i \in DOMAIN ks |-> Item(ks[i], vs[i])]) : vs \in [DOMAIN ks -> values]} :
           ks \in KeyOrders}
FlatDicts == DictsOver(Leaves)
NestedDicts == DictsOver(Leaves \cup FlatDicts)

\* What the claims say of a nested mapping, computed on the mapping itself.
RECURSIVE LeafSum(_)
RECURSIVE LeafSumFrom(_, _)
LeafSum(x) ==
    IF is_numeric(x) THEN x.n ELSE IF x.t = "dict" THEN LeafSumFrom(x.d, 1) ELSE 0
LeafSumFrom(items, i) ==
    IF i > Len(items) THEN 0 ELSE LeafSum(items[i].v) + LeafSumFrom(items, i + 1)

\* The "__"-joined key paths of the numeric leaves of a nested mapping.
RECURSIVE LeafPaths(_, _)
RECURSIVE LeafPathsFrom(_, _, _)
LeafPaths(x, path) ==
    IF is_numeric(x) THEN <<path>>
    ELSE IF x.t = "dict" THEN LeafPathsFrom(x.d, 1, path) ELSE <<>>
LeafPathsFrom(items, i, path) ==
    IF i > Len(items) THEN <<>>
    ELSE LeafPaths(items[i].v, IF path = "" THEN items[i].k.s
                               ELSE path \o "__" \o items[i].k.s)
         \o LeafPathsFrom(items, i + 1, path)
PathSet(x) == {LeafPaths(x, "")[i] : i \in 1..Len(LeafPaths(x, ""))}

RECURSIVE AllLeavesNumeric(_)
AllLeavesNumeric(x) ==
    /\ x.t = "dict"
    /\ \A i \in 1..Len(x.d) :
          \/ x.d[i].v.t = "num"
          \/ x.d[i].v.t = "dict" /\ x.d[i].v.d # <<>> /\ AllLeavesNumeric(x.d[i].v)

(***************************************************************************)
(* Specification of convert_nested_dict(data, values=[]) on any input.     *)
(***************************************************************************)
InitFlatten ==
    /\ last_call \in {[site |-> "pending", input |-> x, out |-> NoCall.out] :
                        x \in NestedDicts}
    /\ default_values = <<>>
    /\ calls = 0
    /\ IdleResponse /\ IdleRecord /\ IdleMain

Flatten ==
    /\ last_call.site = "pending"
    /\ last_call' = [site |-> "convert_nested_dict", input |-> last_call.input,
                     out |-> convert_nested_dict(last_call.input, "", <<>>)]
    /\ calls' = calls + 1
    /\ UNCHANGED <<default_values, response_vars, record_vars, main_vars>>

NextFlatten == Flatten

SpecFlatten == InitFlatten /\ [][NextFlatten]_vars

Flattened == last_call.site = "convert_nested_dict"

\* C6 as stated: for any nested mapping whose leaves are all numbers, the
\* values of the flattened mapping sum to the sum of the mapping's leaves.
C6_SumPreserved ==
    (Flattened /\ AllLeavesNumeric(last_call.input))
      => /\ last_call.out.exc = ""
         /\ last_call.out.val.t = "dict"
         /\ SumValues(last_call.out.val) = LeafSum(last_call.input)

(***************************************************************************)
(* Specification of successive invocations of the enrichers that flatten.  *)
(***************************************************************************)
CategorySamples == {Str("telefone_fixo"), Str("telefone_celular")}
CallInputs == DictsOver(Leaves \cup {EmptyDict, Dict(<<Item(Str("a"), Num(1))>>)})

Answer(text, json) == <<Ok(Response(TRUE, text, json))>>

InitCalls ==
    /\ IdleFlatten
    /\ IdleResponse /\ IdleRecord /\ IdleMain

Invoked(site, input, r) ==
    /\ last_call' = [site |-> site, input |-> input,
                     out |-> [exc |-> r.exc, val |-> r.val, values |-> <<>>]]
    /\ default_values' = r.values
    /\ calls' = calls + 1
    /\ UNCHANGED <<response_vars, record_vars, main_vars>>

InvokeGetPois(summary, total) ==
    /\ calls < MaxCalls
    /\ Invoked("get_pois", summary,
               get_pois(Answer("pois", Dict(<<Item(Str("summary"), summary),
                                              Item(Str("total"), Num(total))>>)),
                        default_values))

InvokeReducePotential(potential, data_potential) ==
    /\ calls < MaxCalls
    /\ Invoked("reduce_potential", Dict(<<Item(potential, data_potential)>>),
               reduce_potential(potential, data_potential, default_values))

InvokeGetSociodemography(body) ==
    /\ calls < MaxCalls
    /\ Invoked("get_sociodemography", body,
               get_sociodemography(Answer("sociodemography", body), default_values))

NextCalls ==
    \/ \E x \in CallInputs, total \in 1..MaxLeaf : InvokeGetPois(x, total)
    \/ \E c \in CategorySamples, x \in CallInputs : InvokeReducePotential(c, x)
    \/ \E x \in CallInputs : InvokeGetSociodemography(x)

SpecCalls == InitCalls /\ [][NextCalls]_vars

\* The keys an invocation derives from its own input.
OwnKeys(call) ==
    CASE call.site = "get_pois" ->
           {Str("pois__" \o path) : path \in PathSet(call.input)} \cup {Str("pois__total")}
      [] call.site = "reduce_potential" ->
           {Str(path) : path \in PathSet(call.input)}
             \cup {Str(call.input.d[1].k.s \o "__total")}
      [] call.site = "get_sociodemography" ->
           {Str("sociodemography__" \o path) : path \in PathSet(call.input)}
      [] OTHER -> {}

IsFlatMapping(out) ==
    /\ out.exc = ""
    /\ out.val.t = "dict"
    /\ ~HasKey(out.val, Str("Error sociodemografia"))

\* C10: after any sequence of invocations of get_pois, reduce_potential and
\* get_sociodemography, the flattened mapping of the last one holds only
\* keys derived from its own input, and the shared default accumulator
\* holds nothing.
C10_NoLeakBetweenCalls ==
    /\ default_values = <<>>
    /\ IsFlatMapping(last_call.out) => Keys(last_call.out.val) \subseteq OwnKeys(last_call)

\* A later invocation that produced a mapping of its own.
C10_Witness ==
    /\ calls >= 2
    /\ IsFlatMapping(last_call.out)
    /\ Keys(last_call.out.val) = OwnKeys(last_call)
    /\ Cardinality(Keys(last_call.out.val)) >= 2

(***************************************************************************)
(* The geocoder and the per-record orchestrator.                           *)
(***************************************************************************)
\* The try block of get_point, from the outcome of its get_response on; the
\* geocoder's documents are JSON objects.
get_point_try(response) ==
    IF response.exc # "" THEN Raise(response.exc) ELSE
    Let(json_loads(response.val), LAMBDA parsed :
    IF parsed.exc # "" THEN parsed
    ELSE IF parsed.val.t # "dict" THEN Raise("TypeError")
    ELSE IF HasKey(parsed.val, Str("error"))
    THEN Ret(Dict(<<Item(Str("geocoder_error"), Get(parsed.val, Str("error")))>>))
    ELSE Ret(Pop(SetItem(parsed.val, Str("geocoder_error"), Str("None")),
                 Str("address"))))

\* The handlers: the last one reads `response`, unbound when get_response
\* raised.
RECURSIVE get_point(_, _, _, _)
get_point(cep, attempts, k, max_retries) ==
    Let(get_response(attempts, k, DefaultMaxRetries), LAMBDA response :
    Let(get_point_try(response), LAMBDA r :
    IF ~Caught(r) THEN r
    ELSE IF r.exc = "ConnectionError"
    THEN IF max_retries # 0
         THEN get_point(cep, attempts, k + response.gets, max_retries - 1)
         ELSE Ret(Dict(<<Item(Str("error"), Str("max_retries"))>>))
    ELSE IF response.exc # "" THEN Raise("UnboundLocalError")
    ELSE Ret(Dict(<<Item(Str("Error geocoder"),
             Str("cep [" \o cep \o "] com erro: [" \o r.exc \o "]"
                 \o (IF response.val.ok
                     THEN "\nresponse: [" \o response.val.text \o "]" ELSE "")))>>))))

\* w holds the attempts of each endpoint for the record's coordinates.
get_point_data(w, shared) ==
    Let(get_intraurban_segmentation(w.seg, w.cluster), LAMBDA seg_intraurban :
    IF seg_intraurban.exc # "" THEN Flat(seg_intraurban.exc, None, shared) ELSE
    Let(get_income(w.income), LAMBDA renda :
    IF renda.exc # "" THEN Flat(renda.exc, None, shared) ELSE
    Let(get_pois(w.pois, shared), LAMBDA pois :
    IF pois.exc # "" THEN pois ELSE
    Let(get_consumption_potential(w.consumption, pois.values), LAMBDA consumption :
    IF consumption.exc # "" THEN consumption ELSE
    Let(get_sociodemography(w.socio, consumption.values), LAMBDA sociodemography :
    IF sociodemography.exc # "" THEN sociodemography
    ELSE Flat("", Update(Update(Update(Update(Update(EmptyDict,
                      seg_intraurban.val), renda.val), pois.val),
                      consumption.val), sociodemography.val),
              sociodemography.values))))))

\* s.upper() == 'NONE' holds of the spellings of "none" in either case.
NoneSpellings ==
    {n \o o \o m \o e : n \in {"n", "N"}, o \in {"o", "O"}, m \in {"n", "N"},
                        e \in {"e", "E"}}

ErrorRecord(index) == Dict(<<Item(Num(index), Dict(<<Item(Str("Error"), Bool(TRUE))>>))>>)

enrich_cep_try(index, w, shared) ==
    Let(get_point(w.cep, w.geocoder, 1, DefaultMaxRetries), LAMBDA pt :
    IF pt.exc # "" THEN Flat(pt.exc, None, shared) ELSE
    Let(Subscript(pt.val, Str("geocoder_error")), LAMBDA geocoder_error :
    IF geocoder_error.exc # "" THEN Flat(geocoder_error.exc, None, shared)
    ELSE IF geocoder_error.val.t # "str" THEN Flat("AttributeError", None, shared)
    ELSE IF geocoder_error.val.s \notin NoneSpellings
    THEN Flat("", Dict(<<Item(Str("geocoder_error"), geocoder_error.val)>>), shared)
    ELSE IF ~HasKey(pt.val, Str("latitude")) \/ ~HasKey(pt.val, Str("longitude"))
    THEN Flat("KeyError", None, shared) ELSE
    Let(get_point_data(w, shared), LAMBDA cep_data :
    IF cep_data.exc # "" THEN cep_data
    ELSE Flat("", Dict(<<Item(Num(index), Update(pt.val, cep_data.val))>>),
              cep_data.values))))

\* enrich_cep with the catch-all handler first: it also swallows
\* the user's interrupt.
enrich_cep_catch_all(index, w, shared) ==
    Let(enrich_cep_try(index, w, shared), LAMBDA r :
        IF r.exc # "" THEN Flat("", ErrorRecord(index), r.values) ELSE r)

enrich_cep(index, w, shared) ==
    Let(enrich_cep_try(index, w, shared), LAMBDA r :
        IF Caught(r) THEN Flat("", ErrorRecord(index), r.values) ELSE r)

(***************************************************************************)
(* Specification of enrich_cep on one record, for every combination of the *)
(* sample behaviours of the seven endpoints.                               *)
(***************************************************************************)
Down(n) == [i \in 1..n |-> Fail("ConnectionError")]
Transient(resp) == Down(TransientFailures) \o <<Ok(resp)>>
Exhausted == Down(DefaultMaxRetries + 1)
Broken == <<Fail("Exception")>>
Interrupted == <<Fail("KeyboardInterrupt")>>
Object(key, value) == Dict(<<Item(Str(key), value)>>)
Object2(key1, value1, key2, value2) ==
    Dict(<<Item(Str(key1), value1), Item(Str(key2), value2)>>)

GeoFound ==
    Response(TRUE, "position",
             Dict(<<Item(Str("latitude"), Num(-23)), Item(Str("longitude"), Num(-46)),
                    Item(Str("address"), Object("city", Str("Sao Paulo")))>>))
GeoError(text, error) == Response(TRUE, text, Object("error", error))
BadGateway == Response(FALSE, "<html>502 Bad Gateway</html>", Invalid)
Garbled == Response(TRUE, "<html>maintenance</html>", Invalid)

GeocoderPlans ==
    {<<Ok(GeoFound)>>, Transient(GeoFound),
     <<Ok(GeoError("cep not found", Str("CEP not found")))>>,
     <<Ok(GeoError("error none", Str("none")))>>,
     <<Ok(GeoError("error 404", Num(404)))>>,
     <<Ok(BadGateway)>>, <<Ok(Garbled)>>, Exhausted, Broken, Interrupted}
SegPlans ==
    {<<Ok(Response(TRUE, "probs", Object("probs", Object2("A", Num(1), "B", Num(2)))))>>,
     <<Ok(Response(TRUE, "no probs", EmptyDict))>>, Broken, Interrupted}
ClusterPlans ==
    {<<Ok(Response(TRUE, "max A", Object("max", Str("A"))))>>,
     <<Ok(Response(TRUE, "max null", Object("max", None)))>>, Exhausted}
IncomePlans == {<<Ok(Response(TRUE, "income", Num(3500)))>>, Exhausted}
PoisPlans ==
    {<<Ok(Response(TRUE, "pois",
                   Object2("summary", Object("food", Object("bar", Num(1))),
                           "total", Num(1))))>>,
     <<Ok(Response(TRUE, "pois without total", Object("summary", Object("bar", Num(1)))))>>,
     Broken}
ConsumptionPlans ==
    {<<Ok(Response(TRUE, "potential",
                   Object("telefone_fixo", Object2("a", Num(1), "b", Num(2)))))>>,
     <<Ok(Response(TRUE, "no potential", EmptyDict))>>, Exhausted, Interrupted}
SocioPlans ==
    {<<Ok(Response(TRUE, "population", Object("pop", Object2("m", Num(1), "f", Num(2)))))>>,
     <<Ok(Response(TRUE, "population unknown", Object("pop", Str("unknown"))))>>,
     <<Ok(BadGateway)>>, Exhausted, Broken, Interrupted}

Worlds ==
    [cep : {"01310-100"}, geocoder : GeocoderPlans, seg : SegPlans,
     cluster : ClusterPlans, income : IncomePlans, pois : PoisPlans,
     consumption : ConsumptionPlans, socio : SocioPlans]

InitRecord ==
    /\ world \in Worlds
    /\ cep_index = 0
    /\ pt_data = Raise("not called")
    /\ record_out = NotEnriched
    /\ IdleResponse /\ IdleFlatten /\ IdleMain

EnrichCep(index) ==
    /\ record_out = NotEnriched
    /\ cep_index' = index
    /\ pt_data' = get_point(world.cep, world.geocoder, 1, DefaultMaxRetries)
    /\ record_out' = enrich_cep(index, world, default_values)
    /\ UNCHANGED <<world, response_vars, flatten_vars, main_vars>>

NextRecord == \E index \in 0..MaxIndex : EnrichCep(index)

SpecRecord == InitRecord /\ [][NextRecord]_vars

Enriched == record_out # NotEnriched
Fetch(attempts) == get_response(attempts, 1, DefaultMaxRetries)
Interrupts(attempts) == Fetch(attempts).exc = "KeyboardInterrupt"

\* get_point reported a geocoding error: a 'geocoder_error' that is not
\* "none" in any case.
GeocoderErrorReported ==
    /\ pt_data.exc = ""
    /\ HasKey(pt_data.val, Str("geocoder_error"))
    /\ Get(pt_data.val, Str("geocoder_error")) \notin {Str(s) : s \in NoneSpellings}

\* The record was geocoded and enrich_cep went on to get_point_data.
Proceeds ==
    /\ pt_data.exc = ""
    /\ HasKey(pt_data.val, Str("geocoder_error"))
    /\ Get(pt_data.val, Str("geocoder_error")) \in {Str(s) : s \in NoneSpellings}
    /\ HasKey(pt_data.val, Str("latitude"))
    /\ HasKey(pt_data.val, Str("longitude"))

\* The segmentation call got as far as asking for the cluster.
AsksCluster ==
    /\ Fetch(world.seg).exc = ""
    /\ json_loads(Fetch(world.seg).val).exc = ""
    /\ Subscript(json_loads(Fetch(world.seg).val).val, Str("probs")).exc = ""

InterruptedBeforeConsumption ==
    \/ Interrupts(world.seg)
    \/ AsksCluster /\ Interrupts(world.cluster)
    \/ Interrupts(world.income)
    \/ Interrupts(world.pois)
ConsumptionReached == Proceeds /\ ~InterruptedBeforeConsumption
ConsumptionOutcome == get_consumption_potential(world.consumption, <<>>)
SocioReached == ConsumptionReached /\ ConsumptionOutcome.exc = ""
SocioOutcome == get_sociodemography(world.socio, <<>>)

\* A KeyboardInterrupt is raised at some step enrich_cep reaches.
InterruptRaised ==
    \/ Interrupts(world.geocoder)
    \/ Proceeds /\ InterruptedBeforeConsumption
    \/ ConsumptionReached /\ Interrupts(world.consumption)
    \/ SocioReached /\ Interrupts(world.socio)

\* Another exception reaches enrich_cep's handlers.
FailureRaised ==
    /\ ~InterruptRaised
    /\ \/ pt_data.exc # ""
       \/ pt_data.exc = "" /\ ~GeocoderErrorReported /\ ~Proceeds
       \/ pt_data.exc = "" /\ GeocoderErrorReported
            /\ Get(pt_data.val, Str("geocoder_error")).t # "str"
       \/ ConsumptionReached /\ ConsumptionOutcome.exc # ""
       \/ SocioReached /\ SocioOutcome.exc # ""

\* C1 as stated: when get_point reports a geocoding error, enrich_cep
\* returns a mapping keyed by cep_index whose record holds the geocoder
\* error and nothing else.
C1_GeocoderErrorUnderIndex ==
    (Enriched /\ GeocoderErrorReported)
      => /\ record_out.exc = ""
         /\ record_out.val =
              Dict(<<Item(Num(cep_index),
                          Object("geocoder_error", Get(pt_data.val, Str("geocoder_error"))))>>)

\* C3: enrich_cep raises nothing but KeyboardInterrupt; a KeyboardInterrupt
\* raised at any step it reaches propagates; any other exception that
\* reaches it, one of get_consumption_potential included, is replaced by
\* {cep_index: {'Error': True}}.
C3_OnlyInterruptPropagates ==
    Enriched =>
      /\ record_out.exc \in {"", "KeyboardInterrupt"}
      /\ InterruptRaised <=> record_out.exc = "KeyboardInterrupt"
      /\ FailureRaised
            => record_out.exc = "" /\ record_out.val = ErrorRecord(cep_index)
      /\ (ConsumptionReached /\ Caught(ConsumptionOutcome))
            => record_out.exc = "" /\ record_out.val = ErrorRecord(cep_index)

\* get_consumption_potential failed for want of a connection, and the
\* record was marked failed.
C3_Witness ==
    /\ Enriched
    /\ ConsumptionReached
    /\ ConsumptionOutcome.exc = "ValueError"
    /\ record_out.exc = ""
    /\ record_out.val = ErrorRecord(cep_index)
    /\ cep_index > 0

\* C7 as stated: whenever a step of get_sociodemography fails other than by
\* an interrupt, the HTTP call included, it returns the sentinel
\* {'Error sociodemografia': ...} and the record keeps the other enrichers'
\* data.
C7_SocioFailureStaysLocal ==
    (Enriched /\ SocioReached /\ Caught(get_sociodemography_try(Fetch(world.socio), <<>>)))
      => /\ SocioOutcome.exc = ""
         /\ Keys(SocioOutcome.val) = {Str("Error sociodemografia")}
         /\ record_out.exc = ""
         /\ HasKey(record_out.val, Num(cep_index))
         /\ HasKey(Get(record_out.val, Num(cep_index)), Str("Error sociodemografia"))
         /\ HasKey(Get(record_out.val, Num(cep_index)),
                   Str("consumption_potential__telefone_fixo__total"))

\* C8 as stated: for every exception of its try block other than a
\* connection error or an interrupt, one raised by get_response included,
\* get_point returns {'Error geocoder': ...} and raises nothing.
C8_GeocoderErrorMarker ==
    (Enriched /\ get_point_try(Fetch(world.geocoder)).exc
                   \notin {"", "KeyboardInterrupt", "ConnectionError"})
      => /\ pt_data.exc = ""
         /\ Keys(pt_data.val) = {Str("Error geocoder")}

(***************************************************************************)
(* The batch driver: main maps enrich_cep over the rows of the input file  *)
(* with n_jobs workers and reduces the list of results with dict_merge.    *)
(* The API answers each postal code in one way.                            *)
(***************************************************************************)
Found(cep) ==
    [cep |-> cep, geocoder |-> <<Ok(GeoFound)>>,
     seg |-> <<Ok(Response(TRUE, "probs", Object("probs", Object2("A", Num(1), "B", Num(2)))))>>,
     cluster |-> <<Ok(Response(TRUE, "max A", Object("max", Str("A"))))>>,
     income |-> <<Ok(Response(TRUE, "income", Num(3500)))>>,
     pois |-> <<Ok(Response(TRUE, "pois",
                            Object2("summary", Object("food", Object("bar", Num(1))),
                                    "total", Num(1))))>>,
     consumption |-> <<Ok(Response(TRUE, "potential",
                                   Object("telefone_fixo", Object2("a", Num(1), "b", Num(2)))))>>,
     socio |-> <<Ok(Response(TRUE, "population",
                             Object("pop", Object2("m", Num(1), "f", Num(2)))))>>]

CepSamples == {"01310-100", "00000-000", "99999-999", "20040-020", "70040-010"}

ApiFor(cep) ==
    CASE cep = "00000-000" ->
           [Found(cep) EXCEPT !.geocoder = <<Ok(GeoError("cep not found", Str("CEP not found")))>>]
      [] cep = "99999-999" ->
           [Found(cep) EXCEPT !.geocoder = <<Ok(GeoError("cep invalid", Str("CEP invalid")))>>]
      [] cep = "20040-020" -> [Found(cep) EXCEPT !.consumption = Exhausted]
      [] cep = "70040-010" -> [Found(cep) EXCEPT !.geocoder = Transient(GeoFound),
                                               !.pois = Broken]
      [] OTHER -> Found(cep)

\* The user interrupts the run while the record's geocoder is being called.
InterruptedApi(cep) == [ApiFor(cep) EXCEPT !.geocoder = Interrupted]

Pending == [t |-> "pending", n |-> 0, s |-> "", d |-> <<>>]

\* Results collected in the order in which the workers complete.
CollectAsCompleted(list, position, index, value) == [list EXCEPT ![position + 1] = value]

\* Parallel(...)(...) returns the results in the order of the rows, whatever
\* the order in which the workers complete.
Collect(list, position, index, value) == [list EXCEPT ![index + 1] = value]

Init ==
    /\ ceps \in UNION {[1..n -> CepSamples] : n \in 0..MaxRecords}
    /\ n_jobs \in 1..MaxJobs
    /\ running = {}
    /\ data = [i \in DOMAIN ceps |-> Pending]
    /\ finished = <<>>
    /\ result = None
    /\ status = "running"
    /\ IdleResponse /\ IdleFlatten /\ IdleRecord

Indices == {i - 1 : i \in DOMAIN ceps}
Done == {finished[i] : i \in DOMAIN finished}

\* A free worker takes the next row.
Dispatch(index) ==
    /\ status = "running"
    /\ index \in Indices \ (running \cup Done)
    /\ \A j \in Indices : j < index => j \in running \cup Done
    /\ Cardinality(running) < n_jobs
    /\ running' = running \cup {index}
    /\ UNCHANGED <<ceps, n_jobs, data, finished, result, status>>
    /\ UNCHANGED <<response_vars, flatten_vars, record_vars>>

\* A worker returns its record's result.
Complete(index) ==
    /\ status = "running"
    /\ index \in running
    /\ LET r == enrich_cep(index, ApiFor(ceps[index + 1]), default_values)
       IN  /\ r.exc = ""
           /\ data' = Collect(data, Len(finished), index, r.val)
    /\ finished' = Append(finished, index)
    /\ running' = running \ {index}
    /\ UNCHANGED <<ceps, n_jobs, result, status>>
    /\ UNCHANGED <<response_vars, flatten_vars, record_vars>>

\* A worker is interrupted: enrich_cep raises and the run is aborted.
Interrupt(index) ==
    /\ status = "running"
    /\ index \in running
    /\ enrich_cep(index, InterruptedApi(ceps[index + 1]), default_values).exc
         = "KeyboardInterrupt"
    /\ status' = "interrupted"
    /\ running' = {}
    /\ UNCHANGED <<ceps, n_jobs, data, finished, result>>
    /\ UNCHANGED <<response_vars, flatten_vars, record_vars>>

\* reduce(dict_merge, data), once every worker has returned.
Reduce ==
    /\ status = "running"
    /\ Len(finished) = Len(ceps)
    /\ LET r == reduce_dict_merge(data)
       IN  /\ result' = r.val
           /\ status' = IF r.exc = "" THEN "done" ELSE r.exc
    /\ UNCHANGED <<ceps, n_jobs, running, data, finished>>
    /\ UNCHANGED <<response_vars, flatten_vars, record_vars>>

Next ==
    \/ \E index \in 0..(MaxRecords - 1) : Dispatch(index)
    \/ \E index \in 0..(MaxRecords - 1) : Complete(index)
    \/ \E index \in 0..(MaxRecords - 1) : Interrupt(index)
    \/ Reduce

Spec == Init /\ [][Next]_vars

\* What enrich_cep returns for the row of an index, and the mapping of a
\* run that enriches the rows one after the other, in the order of the file.
RowResult(index) == enrich_cep(index, ApiFor(ceps[index + 1]), <<>>).val
SequentialResult == reduce_dict_merge([i \in DOMAIN ceps |-> RowResult(i - 1)]).val

\* C2 as stated: for a non-empty input with distinct indices, the reduced
\* mapping has one entry per input index and no other key, failed records
\* included.
C2_OneEntryPerIndex ==
    (status = "done" /\ ceps # <<>>) => Keys(result) = {Num(index) : index \in Indices}

\* C5: whatever the number of workers and the order in which they complete,
\* each result collected so far stands at the place of its record's index,
\* and main obtains the mapping of the sequential run.
C5_CompletionOrderIrrelevant ==
    /\ \A index \in Done : data[index + 1] = RowResult(index)
    /\ status = "done" => result = SequentialResult

\* Two workers completed in the reverse of the order of the rows.
C5_Witness ==
    /\ status = "done"
    /\ n_jobs >= 2
    /\ Len(finished) >= 2
    /\ finished[1] > finished[2]
    /\ Keys(result) # {}

====
